---- MODULE Spec2Model ----
(***************************************************************************)
(* A model of the survey analysis toolkit: the table functions of          *)
(* so_survey (subset.py, stats.py, catalog.py, loader.py), the so_survey   *)
(* REPL session (repl.py) and the stack_survey command loop (cli.py,       *)
(* survey.py).                                                             *)
(*                                                                         *)
(* Four specifications share the variables:                                *)
(*   SpecLib     a caller applying the table functions to a table;         *)
(*   Spec        the two interactive programs as they start (a process is  *)
(*               one program or the other);                                *)
(*   SpecLoaded  a SurveyREPL object whose session fields hold a table;    *)
(*   SpecCatalog the catalog and load commands of the so_survey command    *)
(*               line over a data directory.                               *)
(***************************************************************************)
EXTENDS Integers, Sequences, FiniteSets, TLC

VARIABLES
    program,          \* which program this process runs: "lib", "so_survey", "stack_survey"
    objs,             \* lib: the DataFrame objects alive, by identity (1 = the caller's table)
    call,             \* lib: the last call made (operation, arguments, the input as it was)
    res,              \* lib: what the last call returned or raised
    touched,          \* lib: which object the caller changed after the call
    disk,             \* so_survey: the workbook stored as the dataset file
    listing,          \* so_survey: the file names of the data directory (os.listdir)
    current_dataset,  \* SurveyREPL.current_dataset
    current_df,       \* SurveyREPL.current_df
    directory,        \* SurveyREPL.directory
    repl_state,       \* cmdloop: "running", "exited", "crashed"
    repl_cmd,         \* the command line cmdloop dispatched last
    repl_out,         \* what the last command printed
    csv_files,        \* files written by save
    survey_df,        \* stack_survey: Survey.df
    cli_state,        \* stack_survey main loop: "running", "exited", "crashed"
    cli_cmd,          \* the command the loop read last
    cli_out           \* what the last command printed

libvars  == <<objs, call, res, touched>>
replvars == <<disk, listing, current_dataset, current_df, directory, repl_state, repl_cmd, repl_out, csv_files>>
clivars  == <<survey_df, cli_state, cli_cmd, cli_out>>
vars     == <<program, objs, call, res, touched, disk, listing, current_dataset, current_df, directory,
              repl_state, repl_cmd, repl_out, csv_files, survey_df, cli_state, cli_cmd, cli_out>>

(***************************************************************************)
(* Bounds of the model.                                                    *)
(***************************************************************************)
MaxRows == 2          \* rows of a loaded table
MaxRespondents == 2   \* rows of a stack_survey workbook
MaxFiles == 2         \* files of a data directory

(***************************************************************************)
(* Cells and tables (pandas DataFrame, as far as the code relies on it).   *)
(* A cell is an integer, a text or the missing value NaN.  A table keeps   *)
(* its column list, a dtype per column and its rows; a row carries its     *)
(* index label, which is not its position.                                 *)
(***************************************************************************)
IntCell(n) == [t |-> "int", n |-> n, s |-> ""]
StrCell(s) == [t |-> "str", n |-> 0, s |-> s]
NaN        == [t |-> "nan", n |-> 0, s |-> ""]

\* Python None where a table, a name or a bound is expected.
None     == [isdf |-> FALSE, cols |-> <<>>, dtypes |-> <<>>, rows |-> <<>>]
NoName   == <<>>
NoBound  == [t |-> "none", n |-> 0, s |-> ""]

Columns    == <<"age", "country">>
AgeCells     == {IntCell(25), IntCell(30), StrCell("25"), NaN}
CountryCells == {StrCell("USA"), StrCell("UK")}

Range(f) == {f[i] : i \in DOMAIN f}

\* The dtype pandas infers for a column when a sheet is read.
InferDtype(cells) ==
    IF \E c \in cells : c.t = "str" THEN "object"
    ELSE IF \E c \in cells : c.t = "nan" THEN "float64"
    ELSE IF cells = {} THEN "object"
    ELSE "int64"

MkRow(i, a, c) == [idx |-> i, vals |-> [k \in {"age", "country"} |-> IF k = "age" THEN a ELSE c]]

MkTable(rows) ==
    [isdf |-> TRUE, cols |-> Columns,
     dtypes |-> [k \in {"age", "country"} |-> InferDtype({rows[i].vals[k] : i \in DOMAIN rows})],
     rows |-> rows]

\* The tables a sheet can hold: RangeIndex 0..n-1, n <= MaxRows.
TablesOfSize(n) ==
    {MkTable([i \in 1..n |-> MkRow(i - 1, a[i], c[i])]) :
        a \in [1..n -> AgeCells], c \in [1..n -> CountryCells]}

LoadedTables == UNION {TablesOfSize(n) : n \in 0..MaxRows}

\* The tables of the workbook in the data directory of the REPL: any ages,
\* the countries alternating.
SheetTables ==
    {t \in LoadedTables :
        \A i \in DOMAIN t.rows :
            t.rows[i].vals["country"] = IF i % 2 = 1 THEN StrCell("USA") ELSE StrCell("UK")}

HasColumn(df, column) == \E i \in DOMAIN df.cols : df.cols[i] = column

Indices(df) == [i \in DOMAIN df.rows |-> df.rows[i].idx]

\* str(value) of a cell of a column with the given dtype.
Render(c, dtype) ==
    IF c.t = "str" THEN c.s
    ELSE IF c.t = "nan" THEN "nan"
    ELSE IF dtype = "float64" THEN ToString(c.n) \o ".0"
    ELSE ToString(c.n)

\* The distinct elements of a sequence, in order of first appearance
\* (Series.unique()).
RECURSIVE Unique(_)
Unique(seq) ==
    IF seq = <<>> THEN <<>>
    ELSE LET init == Unique(SubSeq(seq, 1, Len(seq) - 1))
             last == seq[Len(seq)]
         IN IF last \in Range(init) THEN init ELSE Append(init, last)

Prefix(seq, n) == SubSeq(seq, 1, IF Len(seq) < n THEN Len(seq) ELSE n)

(***************************************************************************)
(* What a call of a table function gives back: a table (a new object when  *)
(* fresh, the argument itself otherwise), a statistics table, or an        *)
(* exception with the column names and the column list its message holds.  *)
(***************************************************************************)
NoRes == [kind |-> "none", df |-> None, fresh |-> FALSE, ref |-> 0, names |-> <<>>,
          available |-> <<>>, diag |-> <<>>, warned |-> FALSE, stats |-> <<>>]

Return(df, fresh) == [NoRes EXCEPT !.kind = "df", !.df = df, !.fresh = fresh]

Raise(kind, names, available) ==
    [NoRes EXCEPT !.kind = kind, !.names = names, !.available = available]

(***************************************************************************)
(* so_survey/subset.py                                                     *)
(***************************************************************************)
DiagLimit == 20

\* Series.isin(values_list): membership by value; the integer 25 and the
\* text "25" are different values, NaN is found when NaN is listed.
IsIn(c, values_list) == \E i \in DOMAIN values_list : values_list[i] = c

\* filter_by_column ending in reset_index(drop=True): the surviving rows are
\* renumbered 0..n-1.
filter_by_column_renumbered(df, column, values) ==
    IF ~HasColumn(df, column) THEN Raise("KeyError", <<column>>, df.cols)
    ELSE IF values = <<>> THEN Raise("ValueError", <<>>, <<>>)
    ELSE LET kept == SelectSeq(df.rows, LAMBDA r : IsIn(r.vals[column], values))
         IN Return([df EXCEPT !.rows = [i \in DOMAIN kept |-> [kept[i] EXCEPT !.idx = i - 1]]],
                   TRUE)

\* filter_by_column selecting with .iloc[1:] after the mask: the first
\* matching row is lost at every application.
filter_by_column_skipfirst(df, column, values) ==
    IF ~HasColumn(df, column) THEN Raise("KeyError", <<column>>, df.cols)
    ELSE IF values = <<>> THEN Raise("ValueError", <<>>, <<>>)
    ELSE LET kept == SelectSeq(df.rows, LAMBDA r : IsIn(r.vals[column], values))
         IN Return([df EXCEPT !.rows = SubSeq(kept, 2, Len(kept))], TRUE)

filter_by_column(df, column, values) ==
    IF ~HasColumn(df, column) THEN Raise("KeyError", <<column>>, df.cols)
    ELSE IF values = <<>> THEN Raise("ValueError", <<>>, <<>>)
    ELSE LET filtered_df ==
                 [df EXCEPT !.rows = SelectSeq(df.rows, LAMBDA r : IsIn(r.vals[column], values))]
             unique_values ==
                 Unique(SelectSeq([i \in DOMAIN df.rows |-> df.rows[i].vals[column]],
                                  LAMBDA c : c.t # "nan"))
         IN IF filtered_df.rows = <<>>
            THEN [Return(filtered_df, TRUE) EXCEPT
                      !.warned = TRUE, !.diag = Prefix(unique_values, DiagLimit)]
            ELSE Return(filtered_df, TRUE)

\* The order of the texts of the model, as Python compares str.
TextOrder == <<"25", "UK", "USA">>
TextRank(s) == CHOOSE i \in DOMAIN TextOrder : TextOrder[i] = s

\* cell >= bound and cell <= bound for two values Python can compare.
Leq(a, b) ==
    /\ a.t = b.t
    /\ IF a.t = "int" THEN a.n <= b.n ELSE TextRank(a.s) <= TextRank(b.s)

\* Whether result[column] >= bound (or <=) raises TypeError: a numeric column
\* compares with numbers only; an object column compares cell by cell.
CompareFails(rows, column, dtype, bound) ==
    IF dtype \in {"int64", "float64"} THEN bound.t # "int"
    ELSE \E i \in DOMAIN rows :
            LET c == rows[i].vals[column]
            IN ~ \/ c.t = "str" /\ bound.t = "str"
                 \/ c.t \in {"int", "nan"} /\ bound.t = "int"

\* filter_by_value_range without the df.copy() of line 97: with no bound
\* given the argument itself is returned.
filter_by_value_range_nocopy(df, column, min_value, max_value) ==
    IF ~HasColumn(df, column) THEN Raise("KeyError", <<column>>, df.cols)
    ELSE IF min_value = NoBound /\ max_value = NoBound THEN Return(df, FALSE)
    ELSE LET dtype == df.dtypes[column]
             r1 == IF min_value = NoBound THEN df.rows
                   ELSE SelectSeq(df.rows, LAMBDA r : Leq(min_value, r.vals[column]))
             r2 == IF max_value = NoBound THEN r1
                   ELSE SelectSeq(r1, LAMBDA r : Leq(r.vals[column], max_value))
         IN IF \/ min_value # NoBound /\ CompareFails(df.rows, column, dtype, min_value)
               \/ max_value # NoBound /\ CompareFails(r1, column, dtype, max_value)
            THEN Raise("TypeError", <<>>, <<>>)
            ELSE Return([df EXCEPT !.rows = r2], TRUE)

filter_by_value_range(df, column, min_value, max_value) ==
    IF ~HasColumn(df, column) THEN Raise("KeyError", <<column>>, df.cols)
    ELSE LET dtype == df.dtypes[column]
             r0 == df.rows
             e1 == min_value # NoBound /\ CompareFails(r0, column, dtype, min_value)
             r1 == IF min_value = NoBound \/ e1 THEN r0
                   ELSE SelectSeq(r0, LAMBDA r : Leq(min_value, r.vals[column]))
             e2 == max_value # NoBound /\ CompareFails(r1, column, dtype, max_value)
             r2 == IF max_value = NoBound \/ e2 THEN r1
                   ELSE SelectSeq(r1, LAMBDA r : Leq(r.vals[column], max_value))
         IN IF e1 \/ e2 THEN Raise("TypeError", <<>>, <<>>)
            ELSE Return([df EXCEPT !.rows = r2], TRUE)

(***************************************************************************)
(* so_survey/stats.py                                                      *)
(***************************************************************************)
\* include=None, or a list of column names.
NoInclude == [given |-> FALSE, cols |-> <<>>]
Include(cols) == [given |-> TRUE, cols |-> cols]

\* A statistic: NaN, a number num/den, or the square root of num/den.
StatNaN == [t |-> "nan", num |-> 0, den |-> 1]
Stat(num, den) == [t |-> "num", num |-> num, den |-> den]
StatSqrt(num, den) == [t |-> "sqrt", num |-> num, den |-> den]

\* The non-missing values of a numeric column, in row order (skipna=True).
NonMissing(df, c) ==
    LET cells == SelectSeq([i \in DOMAIN df.rows |-> df.rows[i].vals[c]],
                           LAMBDA x : x.t # "nan")
    IN [i \in DOMAIN cells |-> cells[i].n]

RECURSIVE Sum(_)
Sum(xs) == IF xs = <<>> THEN 0 ELSE xs[1] + Sum(SubSeq(xs, 2, Len(xs)))

\* The values in ascending order (the sort median works on).
RECURSIVE Sorted(_)
Sorted(xs) ==
    IF xs = <<>> THEN <<>>
    ELSE LET rest == Sorted(SubSeq(xs, 2, Len(xs)))
             below == SelectSeq(rest, LAMBDA y : y <= xs[1])
             above == SelectSeq(rest, LAMBDA y : y > xs[1])
         IN below \o <<xs[1]>> \o above

\* numeric_df.mean(): NaN for a column without values.
Mean(xs) == IF xs = <<>> THEN StatNaN ELSE Stat(Sum(xs), Len(xs))

\* numeric_df.median() taking the upper of the two middle values of an even
\* count (sorted[n // 2]) instead of their average.
Median_upper(xs) ==
    IF xs = <<>> THEN StatNaN ELSE Stat(Sorted(xs)[(Len(xs) \div 2) + 1], 1)

\* numeric_df.median(): the middle value, or the average of the two middle
\* values.
Median(xs) ==
    LET n == Len(xs)
        sorted == Sorted(xs)
    IN IF n = 0 THEN StatNaN
       ELSE IF n % 2 = 1 THEN Stat(sorted[(n \div 2) + 1], 1)
       ELSE Stat(sorted[n \div 2] + sorted[(n \div 2) + 1], 2)

\* numeric_df.std(): sample standard deviation (ddof=1), NaN below two
\* values; the variance is (n * sum(x^2) - sum(x)^2) / (n * (n - 1)).
Std(xs) ==
    LET n == Len(xs)
    IN IF n < 2 THEN StatNaN
       ELSE StatSqrt(n * Sum([i \in DOMAIN xs |-> xs[i] * xs[i]]) - Sum(xs) * Sum(xs),
                     n * (n - 1))

\* numeric_df.min() and numeric_df.max()
Smallest(xs) == IF xs = <<>> THEN StatNaN ELSE Stat(Sorted(xs)[1], 1)
Largest(xs) == IF xs = <<>> THEN StatNaN ELSE Stat(Sorted(xs)[Len(xs)], 1)

\* df[include]: pandas raises KeyError naming the labels that are not columns.
describe(df, include) ==
    LET missing == SelectSeq(include.cols, LAMBDA c : ~HasColumn(df, c))
        cols == IF include.given THEN include.cols ELSE df.cols
        numeric == SelectSeq(cols, LAMBDA c : df.dtypes[c] \in {"int64", "float64"})
    IN IF include.given /\ missing # <<>> THEN Raise("KeyError", missing, <<>>)
       ELSE [NoRes EXCEPT !.kind = "stats",
                          !.stats = [i \in DOMAIN numeric |->
                                        LET xs == NonMissing(df, numeric[i])
                                        IN [column |-> numeric[i],
                                            count |-> Len(xs),
                                            mean |-> Mean(xs),
                                            median |-> Median(xs),
                                            std |-> Std(xs),
                                            min |-> Smallest(xs),
                                            max |-> Largest(xs)]]]

(***************************************************************************)
(* so_survey/catalog.py and so_survey/loader.py.  A file name is the       *)
(* sequence of its parts, the extension last (<<"survey_2021", ".xlsx">>); *)
(* a directory is a sequence of path parts, None the empty one.            *)
(***************************************************************************)
Extensions == {".xlsx", ".xls", ".XLSX", ".csv"}

\* str.lower() on the extensions of the model.
LowerExt(e) == IF e = ".XLSX" THEN ".xlsx" ELSE e

\* name.lower().endswith(('.xlsx', '.xls'))
EndsWithExcel(parts) ==
    /\ parts # <<>>
    /\ parts[Len(parts)] \in Extensions
    /\ LowerExt(parts[Len(parts)]) \in {".xlsx", ".xls"}

\* os.path.splitext(file)[0]
SplitExtStem(parts) ==
    IF Len(parts) > 1 /\ parts[Len(parts)] \in Extensions
    THEN SubSeq(parts, 1, Len(parts) - 1) ELSE parts

DefaultDataDir == <<"so_survey", "..", "data">>

\* The files of the data directory: one workbook holding the table `disk`
\* in its only sheet, one file that is no workbook, one export.
DataDirListing == << <<"survey_2021", ".xlsx">>, <<"corrupt", ".xlsx">>, <<"notes", ".csv">> >>

ListDir(dir) == IF dir = DefaultDataDir THEN listing ELSE <<>>
DirExists(dir) == dir = DefaultDataDir

list_datasets(dir) ==
    LET d == IF dir = NoName THEN DefaultDataDir ELSE dir
    IN IF ~DirExists(d) THEN <<>>
       ELSE LET files == SelectSeq(ListDir(d), EndsWithExcel)
            IN [i \in DOMAIN files |-> SplitExtStem(files[i])]

get_dataset_path(dataset_name, dir) ==
    [dir  |-> IF dir = NoName THEN DefaultDataDir ELSE dir,
     file |-> IF EndsWithExcel(dataset_name) THEN dataset_name
              ELSE Append(dataset_name, ".xlsx")]

\* What is stored at a path: nothing, bytes that are no workbook, or a
\* workbook with its sheets.
FileAt(path) ==
    IF path.dir # DefaultDataDir \/ path.file \notin Range(ListDir(path.dir))
    THEN [kind |-> "absent", sheets |-> <<>>]
    ELSE IF path.file = <<"corrupt", ".xlsx">> THEN [kind |-> "garbage", sheets |-> <<>>]
    ELSE [kind |-> "workbook", sheets |-> <<[name |-> "Sheet1", df |-> disk]>>]

\* sheet_name: None (NoBound), an index or a name.  pd.read_excel raises on a
\* file that is no workbook and on a sheet the workbook does not have; the
\* except clause turns that into RuntimeError.
load_survey(file_path, sheet_name) ==
    LET f == FileAt(file_path)
        hit == IF sheet_name = NoBound THEN {1} \cap DOMAIN f.sheets
               ELSE IF sheet_name.t = "int" THEN {sheet_name.n + 1} \cap DOMAIN f.sheets
               ELSE {i \in DOMAIN f.sheets : f.sheets[i].name = sheet_name.s}
    IN IF ~EndsWithExcel(file_path.file) THEN Raise("ValueError", <<>>, <<>>)
       ELSE IF f.kind = "absent" THEN Raise("FileNotFoundError", <<>>, <<>>)
       ELSE IF f.kind # "workbook" \/ hit = {} THEN Raise("RuntimeError", <<>>, <<>>)
       ELSE Return(f.sheets[CHOOSE i \in hit : \A j \in hit : i <= j].df, TRUE)

list_excel_sheets(file_path) ==
    LET f == FileAt(file_path)
    IN IF ~EndsWithExcel(file_path.file) THEN Raise("ValueError", <<>>, <<>>)
       ELSE IF f.kind = "absent" THEN Raise("FileNotFoundError", <<>>, <<>>)
       ELSE IF f.kind # "workbook" THEN Raise("RuntimeError", <<>>, <<>>)
       ELSE [NoRes EXCEPT !.kind = "sheets",
                          !.names = [i \in DOMAIN f.sheets |-> f.sheets[i].name]]

(***************************************************************************)
(* A caller of the table functions: it holds a table read from a sheet     *)
(* (object 1), calls a function on it, may change one of the two tables    *)
(* in place afterwards, and may go on with the result.                     *)
(***************************************************************************)
NoCall == [op |-> "none", column |-> "", values |-> <<>>, min_value |-> NoBound,
           max_value |-> NoBound, include |-> NoInclude, input |-> None,
           dataset |-> NoName, directory |-> NoName]

ColumnArgs  == {"age", "country", "zip"}
ValueLists  == {<<>>, <<StrCell("25")>>, <<IntCell(25)>>, <<StrCell("USA")>>,
                <<StrCell("25"), StrCell("USA")>>, <<IntCell(30), IntCell(25)>>,
                <<StrCell("nan")>>}
RangeBounds == {NoBound, IntCell(25), IntCell(30), StrCell("UK")}
IncludeArgs == {NoInclude, Include(<<"age">>), Include(<<"country">>),
                Include(<<"age", "zip">>), Include(<<"zip">>)}

\* The object a returned table is: the argument itself, or a new object.
Bind(r) ==
    /\ res' = [r EXCEPT !.ref = IF r.kind # "df" THEN 0 ELSE IF r.fresh THEN 2 ELSE 1]
    /\ objs' = [objs EXCEPT ![2] = IF r.kind = "df" /\ r.fresh THEN r.df ELSE None]

CallFilterByColumn ==
    /\ program = "lib" /\ res.kind = "none"
    /\ \E column \in ColumnArgs, values \in ValueLists :
          /\ call' = [NoCall EXCEPT !.op = "filter_by_column", !.column = column,
                                    !.values = values, !.input = objs[1]]
          /\ Bind(filter_by_column(objs[1], column, values))
    /\ UNCHANGED <<program, touched, replvars, clivars>>

CallFilterByValueRange ==
    /\ program = "lib" /\ res.kind = "none"
    /\ \E column \in ColumnArgs, min_value \in RangeBounds, max_value \in RangeBounds :
          /\ call' = [NoCall EXCEPT !.op = "filter_by_value_range", !.column = column,
                                    !.min_value = min_value, !.max_value = max_value,
                                    !.input = objs[1]]
          /\ Bind(filter_by_value_range(objs[1], column, min_value, max_value))
    /\ UNCHANGED <<program, touched, replvars, clivars>>

CallDescribe ==
    /\ program = "lib" /\ res.kind = "none"
    /\ \E include \in IncludeArgs :
          /\ call' = [NoCall EXCEPT !.op = "describe", !.include = include, !.input = objs[1]]
          /\ Bind(describe(objs[1], include))
    /\ UNCHANGED <<program, touched, replvars, clivars>>

\* The caller changes a table in place (df.loc[99] = [0, "USA"]): the table
\* it passed (1) or the one it got back.
Poke(df) == [df EXCEPT !.rows = Append(@, MkRow(99, IntCell(0), StrCell("USA")))]

Mutate ==
    /\ program = "lib" /\ res.kind = "df" /\ touched = "none"
    /\ \E target \in {"in", "out"} :
          /\ touched' = target
          /\ objs' = [objs EXCEPT ![IF target = "in" THEN 1 ELSE res.ref] = Poke(@)]
    /\ UNCHANGED <<program, call, res, replvars, clivars>>

\* The caller goes on with the returned table in place of its own.
Adopt ==
    /\ program = "lib" /\ res.kind = "df" /\ touched = "none"
    /\ objs' = [objs EXCEPT ![1] = objs[res.ref], ![2] = None]
    /\ call' = NoCall /\ res' = NoRes
    /\ UNCHANGED <<program, touched, replvars, clivars>>

\* The caller drops the result (or handles the exception) and keeps its table.
Discard ==
    /\ program = "lib" /\ res.kind # "none" /\ touched = "none"
    /\ objs' = [objs EXCEPT ![2] = None]
    /\ call' = NoCall /\ res' = NoRes
    /\ UNCHANGED <<program, touched, replvars, clivars>>

(***************************************************************************)
(* so_survey/cli.py: the catalog and load commands.  Each run of the       *)
(* command line is one command over the data directory as it is.           *)
(***************************************************************************)
\* The file names a data directory can hold.
CatalogFiles ==
    {<<"survey_2021", ".xlsx">>, <<"survey_2021", ".xls">>, <<"DATA", ".XLSX">>,
     <<"report", ".xlsx", ".xlsx">>, <<"notes", ".csv">>}

\* The directory contents: up to MaxFiles different files, in the order
\* os.listdir gives them.
Listings ==
    UNION {{l \in [1..n -> CatalogFiles] : \A i, j \in 1..n : i # j => l[i] # l[j]} :
              n \in 0..MaxFiles}

DirectoryArgs == {NoName, DefaultDataDir, <<"elsewhere">>}

\* catalog_command: the names it echoes.
catalog_command(dir) == [NoRes EXCEPT !.kind = "names", !.names = list_datasets(dir)]

\* load_command: the table it previews, or the error it reports before
\* sys.exit(1).
load_command(dataset, dir) == load_survey(get_dataset_path(dataset, dir), NoBound)

CatalogCommand ==
    /\ program = "so_survey_cli"
    /\ \E dir \in DirectoryArgs :
          /\ call' = [NoCall EXCEPT !.op = "catalog_command", !.directory = dir]
          /\ res' = catalog_command(dir)
    /\ UNCHANGED <<program, objs, touched, replvars, clivars>>

\* The user loads a dataset by a name the catalog lists, or by another name.
LoadCommand ==
    /\ program = "so_survey_cli"
    /\ \E dir \in DirectoryArgs :
          \E dataset \in Range(list_datasets(dir)) \cup {<<"missing">>} :
             /\ call' = [NoCall EXCEPT !.op = "load_command", !.dataset = dataset,
                                       !.directory = dir]
             /\ res' = load_command(dataset, dir)
    /\ UNCHANGED <<program, objs, touched, replvars, clivars>>

(***************************************************************************)
(* so_survey/repl.py: the SurveyREPL command handlers.  A handler gives    *)
(* the session fields and files it leaves, what it printed, whether it     *)
(* returned True (cmdloop stops) and whether an exception left it.         *)
(***************************************************************************)
\* The names bound in module so_survey.repl: its imports (lines 4-10), the
\* class and the function it defines.
ReplModuleNames ==
    {"cmd", "sys", "pd", "Optional", "List", "shlex", "load_survey", "list_excel_sheets",
     "SurveyREPL", "start_repl"}

ROut(kind, msg) ==
    [kind |-> kind, msg |-> msg, exc |-> "", names |-> <<>>, available |-> <<>>, shown |-> None]

Silent == ROut("none", "")
NoDatasetLoaded == ROut("error", "No dataset loaded. Use 'load DATASET' first.")

\* print(f"<prefix>: {e}") in an except clause, e of the given class.
Caught(prefix, exc) == [ROut("error", prefix) EXCEPT !.exc = exc]

Keep(out) ==
    [current_dataset |-> current_dataset, current_df |-> current_df, directory |-> directory,
     csv_files |-> csv_files, out |-> out, stop |-> FALSE, raised |-> FALSE, asked |-> FALSE]

\* An integer argument as typed: absent, a number, or no number.
Blank  == [t |-> "blank", n |-> 0]
Num(n) == [t |-> "int", n |-> n]
NotNum == [t |-> "bad", n |-> 0]

HeadDefault == 5

Min(a, b) == IF a < b THEN a ELSE b
Max(a, b) == IF a > b THEN a ELSE b

\* DataFrame.head(n) and DataFrame.tail(n), n negative included.
head(df, n) ==
    [df EXCEPT !.rows = SubSeq(@, 1, IF n >= 0 THEN Min(n, Len(@)) ELSE Max(Len(@) + n, 0))]
tail(df, n) ==
    [df EXCEPT !.rows = SubSeq(@, IF n >= 0 THEN Len(@) - Min(n, Len(@)) + 1 ELSE Min(0 - n, Len(@)) + 1,
                               Len(@))]

\* args of catalog, load and sheets after shlex.split and the option loop.
\* wellformed is FALSE when shlex.split raises (no closing quotation).
LineArgs(wellformed, dataset, dir, sheet, nhead) ==
    [wellformed |-> wellformed, dataset |-> dataset, directory |-> dir,
     sheet |-> sheet, head |-> nhead]

do_catalog(a) ==
    IF ~a.wellformed THEN Keep(Caught("Error", "ValueError"))
    ELSE IF "list_datasets" \notin ReplModuleNames THEN Keep(Caught("Error", "NameError"))
    ELSE LET datasets == list_datasets(a.directory)
         IN IF datasets = <<>> THEN Keep(ROut("ok", "No datasets found."))
            ELSE Keep([ROut("ok", "Available datasets:") EXCEPT !.names = datasets])

\* do_load with "self.current_dataset = dataset" moved above the path
\* resolution and the read: a failure leaves the name of a dataset that was
\* never loaded.
do_load_early(a) ==
    IF ~a.wellformed THEN Keep(Caught("Error loading dataset", "ValueError"))
    ELSE IF a.dataset = NoName THEN Keep(ROut("error", "Error: Dataset name required"))
    ELSE IF a.head.t = "bad" THEN Keep(Caught("Error loading dataset", "ValueError"))
    ELSE IF "get_dataset_path" \notin ReplModuleNames
    THEN [Keep(Caught("Error loading dataset", "NameError")) EXCEPT !.current_dataset = a.dataset]
    ELSE LET r == load_survey(get_dataset_path(a.dataset, a.directory), a.sheet)
             n == IF a.head.t = "blank" THEN HeadDefault ELSE a.head.n
         IN IF r.kind # "df"
            THEN [Keep(Caught("Error loading dataset", r.kind)) EXCEPT !.current_dataset = a.dataset]
            ELSE [Keep([ROut("ok", "Loaded dataset") EXCEPT
                            !.shown = head(r.df, n), !.names = r.df.cols])
                  EXCEPT !.current_dataset = a.dataset, !.current_df = r.df,
                         !.directory = a.directory]

\* do_load clearing the session before it resolves the path (the three
\* fields set to None at the top of the try block).
do_load_reset(a) ==
    IF ~a.wellformed THEN Keep(Caught("Error loading dataset", "ValueError"))
    ELSE IF a.dataset = NoName THEN Keep(ROut("error", "Error: Dataset name required"))
    ELSE IF a.head.t = "bad" \/ "get_dataset_path" \notin ReplModuleNames
    THEN [Keep(Caught("Error loading dataset",
                      IF a.head.t = "bad" THEN "ValueError" ELSE "NameError"))
          EXCEPT !.current_dataset = NoName, !.current_df = None, !.directory = NoName]
    ELSE LET r == load_survey(get_dataset_path(a.dataset, a.directory), a.sheet)
             n == IF a.head.t = "blank" THEN HeadDefault ELSE a.head.n
         IN IF r.kind # "df"
            THEN [Keep(Caught("Error loading dataset", r.kind))
                  EXCEPT !.current_dataset = NoName, !.current_df = None, !.directory = NoName]
            ELSE [Keep([ROut("ok", "Loaded dataset") EXCEPT
                            !.shown = head(r.df, n), !.names = r.df.cols])
                  EXCEPT !.current_dataset = a.dataset, !.current_df = r.df,
                         !.directory = a.directory]

do_load(a) ==
    IF ~a.wellformed THEN Keep(Caught("Error loading dataset", "ValueError"))
    ELSE IF a.dataset = NoName THEN Keep(ROut("error", "Error: Dataset name required"))
    ELSE IF a.head.t = "bad" THEN Keep(Caught("Error loading dataset", "ValueError"))
    ELSE IF "get_dataset_path" \notin ReplModuleNames
    THEN Keep(Caught("Error loading dataset", "NameError"))
    ELSE LET file_path == get_dataset_path(a.dataset, a.directory)
             r == load_survey(file_path, a.sheet)
             n == IF a.head.t = "blank" THEN HeadDefault ELSE a.head.n
         IN IF r.kind # "df" THEN Keep(Caught("Error loading dataset", r.kind))
            ELSE [Keep([ROut("ok", "Loaded dataset") EXCEPT
                            !.shown = head(r.df, n), !.names = r.df.cols])
                  EXCEPT !.current_dataset = a.dataset, !.current_df = r.df,
                         !.directory = a.directory]

do_sheets(a) ==
    IF ~a.wellformed THEN Keep(Caught("Error reading Excel file", "ValueError"))
    ELSE IF a.dataset = NoName THEN Keep(ROut("error", "Error: Dataset name required"))
    ELSE IF "get_dataset_path" \notin ReplModuleNames
    THEN Keep(Caught("Error reading Excel file", "NameError"))
    ELSE LET r == list_excel_sheets(get_dataset_path(a.dataset, a.directory))
         IN IF r.kind # "sheets" THEN Keep(Caught("Error reading Excel file", r.kind))
            ELSE Keep([ROut("ok", "Sheets in") EXCEPT !.names = r.names])

\* do_info without its "if self.current_df is None" guard: the attribute
\* access on None raises AttributeError, which nothing in do_info catches.
do_info_unguarded ==
    IF current_df = None THEN [Keep(Silent) EXCEPT !.raised = TRUE]
    ELSE Keep([ROut("ok", "Current dataset") EXCEPT !.names = current_df.cols])

do_info ==
    IF current_df = None THEN Keep(NoDatasetLoaded)
    ELSE Keep([ROut("ok", "Current dataset") EXCEPT !.names = current_df.cols])

do_head(n) ==
    IF current_df = None THEN Keep(NoDatasetLoaded)
    ELSE IF n.t = "bad" THEN Keep(ROut("error", "Error: Invalid number"))
    ELSE Keep([ROut("ok", "") EXCEPT
                   !.shown = head(current_df, IF n.t = "blank" THEN HeadDefault ELSE n.n)])

do_tail(n) ==
    IF current_df = None THEN Keep(NoDatasetLoaded)
    ELSE IF n.t = "bad" THEN Keep(ROut("error", "Error: Invalid number"))
    ELSE Keep([ROut("ok", "") EXCEPT
                   !.shown = tail(current_df, IF n.t = "blank" THEN HeadDefault ELSE n.n)])

do_columns ==
    IF current_df = None THEN Keep(NoDatasetLoaded)
    ELSE Keep([ROut("ok", "Columns:") EXCEPT !.names = current_df.cols])

\* a: the words of the line (wellformed FALSE when shlex.split raises).
Words(wellformed, tokens) == [wellformed |-> wellformed, tokens |-> tokens]

do_describe(a) ==
    IF current_df = None THEN Keep(NoDatasetLoaded)
    ELSE IF ~a.wellformed THEN Keep(Caught("Error calculating statistics", "ValueError"))
    ELSE IF "describe" \notin ReplModuleNames
    THEN Keep(Caught("Error calculating statistics", "NameError"))
    ELSE LET r == describe(current_df, IF a.tokens = <<>> THEN NoInclude ELSE Include(a.tokens))
         IN IF r.kind # "stats" THEN Keep(Caught("Error calculating statistics", r.kind))
            ELSE Keep([ROut("ok", "Descriptive Statistics:") EXCEPT
                           !.names = [i \in DOMAIN r.stats |-> r.stats[i].column]])

\* The answers typed at a confirmation prompt; EndOfInput when input()
\* raises EOFError.
Answers == {"y", "yes", "Y", "YES", "n", "", "maybe"}
EndOfInput == "<EOF>"

\* str.lower() on the answers of the model.
LowerAnswer(x) ==
    IF x \in {"y", "Y"} THEN "y"
    ELSE IF x \in {"yes", "YES"} THEN "yes"
    ELSE x

Tail1(seq) == SubSeq(seq, 2, Len(seq))

do_filter(a, response) ==
    IF current_df = None THEN Keep(NoDatasetLoaded)
    ELSE IF ~a.wellformed THEN Keep(Caught("Error filtering dataset", "ValueError"))
    ELSE IF Len(a.tokens) < 2
    THEN Keep(ROut("error", "Error: Column and at least one value required"))
    ELSE IF ~HasColumn(current_df, a.tokens[1])
    THEN Keep([ROut("error", "Error: Column not found") EXCEPT !.names = <<a.tokens[1]>>])
    ELSE IF "filter_by_column" \notin ReplModuleNames
    THEN Keep(Caught("Error filtering dataset", "NameError"))
    ELSE LET values == [i \in DOMAIN Tail1(a.tokens) |-> StrCell(Tail1(a.tokens)[i])]
             r == filter_by_column(current_df, a.tokens[1], values)
         IN IF r.kind # "df" THEN Keep(Caught("Error filtering dataset", r.kind))
            ELSE IF response = EndOfInput
            THEN [Keep(Caught("Error filtering dataset", "EOFError")) EXCEPT !.asked = TRUE]
            ELSE IF LowerAnswer(response) \in {"y", "yes"}
            THEN [Keep([ROut("ok", "Current dataset updated with filtered data.") EXCEPT
                            !.shown = head(r.df, HeadDefault)])
                  EXCEPT !.current_df = r.df, !.asked = TRUE]
            ELSE [Keep([ROut("ok", "Filtered dataset") EXCEPT !.shown = head(r.df, HeadDefault)])
                  EXCEPT !.asked = TRUE]

\* DataFrame.to_csv(filename, index=False): the header and one line of
\* texts per row; the index is not written.
CsvText(c, dtype) == IF c.t = "nan" THEN "" ELSE Render(c, dtype)

to_csv(df) ==
    [header |-> df.cols,
     lines  |-> [i \in DOMAIN df.rows |->
                    [k \in DOMAIN df.cols |->
                        CsvText(df.rows[i].vals[df.cols[k]], df.dtypes[df.cols[k]])]]]

\* File names typed after save; the second is in a directory that does not exist.
SaveNames == {"", "out.csv", "nodir/out.csv"}

do_save(filename) ==
    IF current_df = None THEN Keep(NoDatasetLoaded)
    ELSE IF filename = "" THEN Keep(ROut("error", "Error: Filename required"))
    ELSE IF filename = "nodir/out.csv" THEN Keep(Caught("Error saving dataset", "OSError"))
    ELSE [Keep(ROut("ok", "Dataset saved")) EXCEPT
              !.csv_files = {f \in csv_files : f.file # filename}
                                \cup {[file |-> filename, content |-> to_csv(current_df)]}]

\* A query expression: blank, not parseable, or COLUMN OP VALUE.
NoExpr  == [t |-> "blank", column |-> "", op |-> "", value |-> NoBound]
BadExpr == [t |-> "bad", column |-> "", op |-> "", value |-> NoBound]
Expr(column, op, value) == [t |-> "expr", column |-> column, op |-> op, value |-> value]

\* DataFrame.query(expr): a new table of the rows the expression holds for.
query(df, e) ==
    IF e.t = "bad" THEN Raise("SyntaxError", <<>>, <<>>)
    ELSE IF ~HasColumn(df, e.column) THEN Raise("UndefinedVariableError", <<e.column>>, <<>>)
    ELSE IF e.op = "=="
    THEN Return([df EXCEPT !.rows = SelectSeq(@, LAMBDA r : r.vals[e.column] = e.value)], TRUE)
    ELSE IF CompareFails(df.rows, e.column, df.dtypes[e.column], e.value)
    THEN Raise("TypeError", <<>>, <<>>)
    ELSE Return([df EXCEPT !.rows = SelectSeq(@, LAMBDA r : Leq(r.vals[e.column], e.value))], TRUE)

\* do_query forgetting the dataset name when the result is adopted
\* (self.current_dataset = None next to self.current_df = result).
do_query_forget(e, response) ==
    IF current_df = None THEN Keep(NoDatasetLoaded)
    ELSE IF e.t = "blank" THEN Keep(ROut("error", "Error: Query expression required"))
    ELSE LET result == query(current_df, e)
         IN IF result.kind # "df" THEN Keep(Caught("Error executing query", result.kind))
            ELSE IF response = EndOfInput
            THEN [Keep(Caught("Error executing query", "EOFError")) EXCEPT !.asked = TRUE]
            ELSE IF LowerAnswer(response) \in {"y", "yes"}
            THEN [Keep([ROut("ok", "Current dataset updated with query result.") EXCEPT
                            !.shown = head(result.df, HeadDefault)])
                  EXCEPT !.current_df = result.df, !.current_dataset = NoName,
                         !.asked = TRUE]
            ELSE [Keep([ROut("ok", "Query result") EXCEPT !.shown = head(result.df, HeadDefault)])
                  EXCEPT !.asked = TRUE]

do_query(e, response) ==
    IF current_df = None THEN Keep(NoDatasetLoaded)
    ELSE IF e.t = "blank" THEN Keep(ROut("error", "Error: Query expression required"))
    ELSE LET result == query(current_df, e)
         IN IF result.kind # "df" THEN Keep(Caught("Error executing query", result.kind))
            ELSE IF response = EndOfInput
            THEN [Keep(Caught("Error executing query", "EOFError")) EXCEPT !.asked = TRUE]
            ELSE IF LowerAnswer(response) \in {"y", "yes"}
            THEN [Keep([ROut("ok", "Current dataset updated with query result.") EXCEPT
                            !.shown = head(result.df, HeadDefault)])
                  EXCEPT !.current_df = result.df, !.asked = TRUE]
            ELSE [Keep([ROut("ok", "Query result") EXCEPT !.shown = head(result.df, HeadDefault)])
                  EXCEPT !.asked = TRUE]

do_exit == [Keep(ROut("ok", "Goodbye!")) EXCEPT !.stop = TRUE]
do_quit == do_exit
do_EOF  == [Keep(ROut("ok", "Goodbye!")) EXCEPT !.stop = TRUE]
emptyline == Keep(Silent)

\* cmd.Cmd.default: a line whose first word names no do_ method.
default == Keep(ROut("error", "*** Unknown syntax"))

\* cmd.Cmd.do_help
do_help == Keep(ROut("ok", "Documented commands"))

(***************************************************************************)
(* stack_survey/survey.py.  Questions, answers and options are texts whose *)
(* characters matter (substring search, split on ';'), so they are         *)
(* sequences of characters.                                                *)
(***************************************************************************)
Text(chars) == [t |-> "str", n |-> 0, s |-> chars]
TextNaN     == [t |-> "nan", n |-> 0, s |-> <<>>]

Q1 == <<"Q", "1">>
Q2 == <<"Q", "2">>
Q9 == <<"Q", "9">>
Questions == <<Q1, Q2>>

Q1Answers == {Text(<<"A">>), Text(<<"B">>), Text(<<"A", ";", "B">>), Text(<<"A", "B">>),
              Text(<<"B", ";", " ", "A">>), TextNaN}
Q2Answers == {Text(<<"Y">>), Text(<<"N">>)}

SurveyRow(i, a, b) == [idx |-> i, vals |-> [q \in {Q1, Q2} |-> IF q = Q1 THEN a ELSE b]]

\* Survey.__init__: pd.read_excel(xlsx_path), RangeIndex 0..n-1.
SurveysOfSize(n) ==
    {[isdf |-> TRUE, cols |-> Questions,
      dtypes |-> [q \in {Q1, Q2} |-> "object"],
      rows |-> [i \in 1..n |-> SurveyRow(i - 1, a[i], b[i])]] :
        a \in [1..n -> Q1Answers], b \in [1..n -> Q2Answers]}

Surveys == UNION {SurveysOfSize(n) : n \in 1..MaxRespondents}

\* str.lower() on the characters of the model.
LowerChar(c) ==
    IF c = "A" THEN "a" ELSE IF c = "B" THEN "b" ELSE IF c = "Q" THEN "q"
    ELSE IF c = "Y" THEN "y" ELSE IF c = "N" THEN "n" ELSE IF c = "M" THEN "m"
    ELSE IF c = "C" THEN "c" ELSE c
UpperChar(c) ==
    IF c = "a" THEN "A" ELSE IF c = "b" THEN "B" ELSE IF c = "q" THEN "Q"
    ELSE IF c = "y" THEN "Y" ELSE IF c = "n" THEN "N" ELSE IF c = "m" THEN "M"
    ELSE IF c = "c" THEN "C" ELSE c
Lower(text) == [i \in DOMAIN text |-> LowerChar(text[i])]
Upper(text) == [i \in DOMAIN text |-> UpperChar(text[i])]

\* sub in text
Contains(sub, text) ==
    \E i \in 1..(Len(text) - Len(sub) + 1) : SubSeq(text, i, i + Len(sub) - 1) = sub

\* " ".join(words)
RECURSIVE JoinWords(_)
JoinWords(words) ==
    IF words = <<>> THEN <<>>
    ELSE IF Len(words) = 1 THEN words[1]
    ELSE words[1] \o <<" ">> \o JoinWords(Tail1(words))

\* astype(str) of an answer cell: NaN becomes the text "nan".
AsStr(c) == IF c.t = "nan" THEN <<"n", "a", "n">> ELSE c.s

\* Regular expressions of the model: a character stands for itself, "+"
\* repeats the character before it one or more times.  re.compile raises
\* re.error ("nothing to repeat") on a pattern that starts with "+".
ReCompiles(pattern) == pattern = <<>> \/ pattern[1] # "+"

RECURSIVE MatchFrom(_, _, _, _)
MatchFrom(pattern, k, text, i) ==
    IF k > Len(pattern) THEN TRUE
    ELSE IF k < Len(pattern) /\ pattern[k + 1] = "+"
    THEN \E j \in 1..(Len(text) - i + 1) :
            /\ \A m \in i..(i + j - 1) : text[m] = pattern[k]
            /\ MatchFrom(pattern, k + 2, text, i + j)
    ELSE /\ i <= Len(text)
         /\ text[i] = pattern[k]
         /\ MatchFrom(pattern, k + 1, text, i + 1)

\* re.search(pattern, text) is not None
ReSearch(pattern, text) == \E i \in 1..(Len(text) + 1) : MatchFrom(pattern, 1, text, i)

search_question(df, keyword) ==
    SelectSeq(df.cols, LAMBDA q : Contains(Lower(keyword), Lower(q)))

\* The list of indices, or the re.error that str.contains lets through.
search_option(df, question, option) ==
    IF ~HasColumn(df, question) THEN [kind |-> "list", idxs |-> <<>>]
    ELSE IF ~ReCompiles(option) THEN [kind |-> "re.error", idxs |-> <<>>]
    ELSE LET hit == SelectSeq(df.rows, LAMBDA r : ReSearch(option, AsStr(r.vals[question])))
         IN [kind |-> "list", idxs |-> [i \in DOMAIN hit |-> hit[i].idx]]

\* df.loc[idxs]
subset_respondents(df, question, option) ==
    LET r == search_option(df, question, option)
    IN IF r.kind # "list" THEN [kind |-> r.kind, df |-> None]
       ELSE [kind |-> "df",
             df |-> [df EXCEPT !.rows = SelectSeq(@, LAMBDA row : row.idx \in Range(r.idxs))]]

\* text.split(';')
RECURSIVE SplitSemi(_)
SplitSemi(text) ==
    IF \A i \in DOMAIN text : text[i] # ";" THEN <<text>>
    ELSE LET k == CHOOSE i \in DOMAIN text : text[i] = ";" /\ \A j \in 1..(i - 1) : text[j] # ";"
         IN <<SubSeq(text, 1, k - 1)>> \o SplitSemi(SubSeq(text, k + 1, Len(text)))

\* text.strip()
RECURSIVE Strip(_)
Strip(text) ==
    IF text = <<>> THEN text
    ELSE IF text[1] = " " THEN Strip(Tail1(text))
    ELSE IF text[Len(text)] = " " THEN Strip(SubSeq(text, 1, Len(text) - 1))
    ELSE text

RECURSIVE Flatten(_)
Flatten(lists) == IF lists = <<>> THEN <<>> ELSE lists[1] \o Flatten(Tail1(lists))

\* value_counts before sorting: each distinct value with its number of
\* occurrences, in order of first appearance.
Tally(values) ==
    LET keys == Unique(values)
    IN [i \in DOMAIN keys |->
           [opt |-> keys[i],
            cnt |-> Cardinality({j \in DOMAIN values : values[j] = keys[i]})]]

\* The observations answer_distribution counts: the non-missing cells, or
\* in multiple-choice mode the stripped pieces of their texts.
Observations(df, question, multiple_choice) ==
    LET cells == SelectSeq([i \in DOMAIN df.rows |-> df.rows[i].vals[question]],
                           LAMBDA c : c.t # "nan")
        texts == [i \in DOMAIN cells |-> AsStr(cells[i])]
    IN IF multiple_choice
       THEN LET pieces == Flatten([i \in DOMAIN texts |-> SplitSemi(texts[i])])
            IN [i \in DOMAIN pieces |-> Strip(pieces[i])]
       ELSE texts

\* The orders value_counts(sort=True) can give the tallied values: counts
\* descending; the order among equal counts is that of the sort pandas uses.
Orderings(n) == {p \in [1..n -> 1..n] : \A i, j \in 1..n : i # j => p[i] # p[j]}

SortedTallies(tally) ==
    {[i \in DOMAIN tally |-> tally[p[i]]] : p \in
        {p \in Orderings(Len(tally)) :
            \A i, j \in DOMAIN tally : i < j => tally[p[i]].cnt >= tally[p[j]].cnt}}

\* answer_distribution dividing by the number of answered rows in both
\* modes (total = len(self.df[question].dropna())).
answer_distribution_per_row(df, question, multiple_choice) ==
    IF ~HasColumn(df, question) THEN {<<>>}
    ELSE LET obs == Observations(df, question, multiple_choice)
             total == Len(Observations(df, question, FALSE))
         IN {[i \in DOMAIN counts |-> [opt |-> counts[i].opt, cnt |-> counts[i].cnt,
                                        total |-> total]] :
                counts \in SortedTallies(Tally(obs))}

\* answer_distribution dividing by the number of all rows, the unanswered
\* ones included (total = len(self.df)).
answer_distribution_all_rows(df, question, multiple_choice) ==
    IF ~HasColumn(df, question) THEN {<<>>}
    ELSE LET obs == Observations(df, question, multiple_choice)
             total == IF multiple_choice THEN Len(obs) ELSE Len(df.rows)
         IN {[i \in DOMAIN counts |-> [opt |-> counts[i].opt, cnt |-> counts[i].cnt,
                                        total |-> total]] :
                counts \in SortedTallies(Tally(obs))}

\* The mappings answer_distribution can return, as the sequence of their
\* items: option, and share as count / total.
answer_distribution(df, question, multiple_choice) ==
    IF ~HasColumn(df, question) THEN {<<>>}
    ELSE LET obs == Observations(df, question, multiple_choice)
             total == Len(obs)
         IN {[i \in DOMAIN counts |-> [opt |-> counts[i].opt, cnt |-> counts[i].cnt,
                                        total |-> total]] :
                counts \in SortedTallies(Tally(obs))}

(***************************************************************************)
(* stack_survey/cli.py: one pass of the while loop of main.  A line is its *)
(* first word and the words after it (single blanks between words).        *)
(***************************************************************************)
COut(kind) ==
    [kind |-> kind, names |-> <<>>, idxs |-> <<>>, shown |-> None, dist |-> <<>>]

CliLine(word, args) == [word |-> word, args |-> args]

\* The next state of the loop and what was printed, for a line that is not
\* exit or quit.
CliResult(state, out) == [state |-> state, out |-> out]

cli_help == CliResult("running", COut("help"))

cli_structure == CliResult("running", [COut("structure") EXCEPT !.names = survey_df.cols])

\* elif cmd.startswith("searchq "): keyword is the rest of the line.
cli_searchq(args) ==
    CliResult("running",
              [COut("questions") EXCEPT !.names = search_question(survey_df, JoinWords(args))])

\* elif cmd.startswith("searcho "): parts = cmd.split(" ", 2)
cli_searcho(args) ==
    IF Len(args) < 2 THEN CliResult("running", COut("usage"))
    ELSE LET r == search_option(survey_df, args[1], JoinWords(Tail1(args)))
         IN IF r.kind # "list" THEN CliResult("crashed", COut("traceback"))
            ELSE CliResult("running", [COut("indices") EXCEPT !.idxs = r.idxs])

\* elif cmd.startswith("subset "): parts = cmd.split(" ", 2)
cli_subset(args) ==
    IF Len(args) < 2 THEN CliResult("running", COut("usage"))
    ELSE LET r == subset_respondents(survey_df, args[1], JoinWords(Tail1(args)))
         IN IF r.kind # "df" THEN CliResult("crashed", COut("traceback"))
            ELSE CliResult("running", [COut("table") EXCEPT !.shown = r.df])

\* elif cmd.startswith("dist "): parts = cmd.split(); one result per order
\* the distribution can come in.
cli_dist(args) ==
    LET mc == Len(args) > 1 /\ Upper(args[2]) = <<"M", "C">>
    IN {CliResult("running", [COut("dist") EXCEPT !.dist = d]) :
           d \in answer_distribution(survey_df, args[1], mc)}

\* The unknown-command branch ending the loop (a break after the print).
cli_unknown_break == CliResult("exited", COut("unknown"))

\* else: print("Unknown command. Type 'help' for commands.")
cli_unknown == CliResult("running", COut("unknown"))

CliStep(line, r) ==
    /\ program = "stack_survey" /\ cli_state = "running"
    /\ cli_cmd' = line
    /\ cli_state' = r.state
    /\ cli_out' = r.out
    /\ UNCHANGED <<program, survey_df, libvars, replvars>>

Keywords    == {<<"q">>, <<"Q", "2">>, <<"x">>}
OptionArgs  == {<<Q1>>, <<Q1, <<"A">> >>, <<Q1, <<"B">> >>, <<Q1, <<"A", "+">> >>,
                <<Q1, <<"+">> >>, <<Q1, <<"B", ";">>, <<"A">> >>, <<Q1, <<"a">> >>,
                <<Q2, <<"Y">> >>, <<Q9, <<"A">> >>, <<Q9, <<"+">> >>}
DistArgs    == {<<Q1>>, <<Q1, <<"M", "C">> >>, <<Q1, <<"m", "c">> >>, <<Q1, <<"S", "C">> >>,
                <<Q2>>, <<Q9>>}
UnknownLines == {"", "foo", "searchq", "searcho", "subset", "dist", "EXIT"}

CliExit ==
    /\ program = "stack_survey" /\ cli_state = "running"
    /\ \E word \in {"exit", "quit"} : cli_cmd' = CliLine(word, <<>>)
    /\ cli_state' = "exited"
    /\ UNCHANGED <<program, survey_df, cli_out, libvars, replvars>>

\* input() raises EOFError at the end of input; nothing catches it.
CliEndOfInput ==
    /\ program = "stack_survey" /\ cli_state = "running"
    /\ cli_cmd' = CliLine(EndOfInput, <<>>)
    /\ cli_state' = "eof"
    /\ UNCHANGED <<program, survey_df, cli_out, libvars, replvars>>

CliHelp      == CliStep(CliLine("help", <<>>), cli_help)
CliStructure == CliStep(CliLine("structure", <<>>), cli_structure)
CliSearchq   == \E k \in Keywords : CliStep(CliLine("searchq", <<k>>), cli_searchq(<<k>>))
CliSearcho   == \E a \in OptionArgs : CliStep(CliLine("searcho", a), cli_searcho(a))
CliSubset    == \E a \in OptionArgs : CliStep(CliLine("subset", a), cli_subset(a))
CliDist      == \E a \in DistArgs : \E r \in cli_dist(a) : CliStep(CliLine("dist", a), r)
CliUnknown   == \E w \in UnknownLines : CliStep(CliLine(w, <<>>), cli_unknown)

(***************************************************************************)
(* cmd.Cmd.cmdloop: one line read and dispatched.  The loop ends when the  *)
(* handler returns True; an exception leaving the handler leaves cmdloop   *)
(* and start_repl (which catches KeyboardInterrupt only).                  *)
(***************************************************************************)
ReplCmd(word, args, asked, response) ==
    [word |-> word, args |-> args, asked |-> asked, response |-> response]
NoCmd == ReplCmd("", <<>>, FALSE, "")

ReplStep(word, args, response, h) ==
    /\ program = "so_survey" /\ repl_state = "running"
    /\ repl_cmd' = ReplCmd(word, args, h.asked, IF h.asked THEN response ELSE "")
    /\ current_dataset' = h.current_dataset
    /\ current_df' = h.current_df
    /\ directory' = h.directory
    /\ csv_files' = h.csv_files
    /\ repl_out' = h.out
    /\ repl_state' = IF h.raised THEN "crashed" ELSE IF h.stop THEN "exited" ELSE "running"
    /\ UNCHANGED <<program, disk, listing, libvars, clivars>>

LoadLines ==
    {LineArgs(FALSE, NoName, NoName, NoBound, Blank),
     LineArgs(TRUE, NoName, NoName, NoBound, Blank),
     LineArgs(TRUE, <<"survey_2021">>, NoName, NoBound, Blank),
     LineArgs(TRUE, <<"survey_2021", ".xlsx">>, NoName, IntCell(0), Num(1)),
     LineArgs(TRUE, <<"survey_2021">>, NoName, NoBound, NotNum),
     LineArgs(TRUE, <<"survey_2021">>, NoName, StrCell("Nope"), Blank),
     LineArgs(TRUE, <<"survey_2021">>, <<"elsewhere">>, NoBound, Blank),
     LineArgs(TRUE, <<"missing">>, NoName, NoBound, Blank),
     LineArgs(TRUE, <<"corrupt">>, NoName, NoBound, Blank)}
CatalogLines ==
    {LineArgs(FALSE, NoName, NoName, NoBound, Blank),
     LineArgs(TRUE, NoName, NoName, NoBound, Blank),
     LineArgs(TRUE, NoName, <<"elsewhere">>, NoBound, Blank)}
SheetsLines ==
    {LineArgs(FALSE, NoName, NoName, NoBound, Blank),
     LineArgs(TRUE, NoName, NoName, NoBound, Blank),
     LineArgs(TRUE, <<"survey_2021">>, NoName, NoBound, Blank),
     LineArgs(TRUE, <<"missing">>, NoName, NoBound, Blank)}
NumberArgs == {Blank, Num(1), Num(0 - 1), NotNum}
DescribeLines ==
    {Words(FALSE, <<>>), Words(TRUE, <<>>), Words(TRUE, <<"age">>), Words(TRUE, <<"age", "zip">>)}
FilterLines ==
    {Words(FALSE, <<>>), Words(TRUE, <<>>), Words(TRUE, <<"age">>), Words(TRUE, <<"age", "25">>),
     Words(TRUE, <<"country", "USA">>), Words(TRUE, <<"country", "UK", "USA">>),
     Words(TRUE, <<"zip", "25">>)}
Responses == Answers \cup {EndOfInput}
QueryLines ==
    {NoExpr, BadExpr, Expr("age", "<=", IntCell(25)), Expr("age", "==", IntCell(30)),
     Expr("country", "==", StrCell("USA")), Expr("zip", "==", IntCell(25))}
UnknownWords == {"foo", "Load", "subset", "stats"}

ReplCatalog  == \E a \in CatalogLines : ReplStep("catalog", a, "", do_catalog(a))
ReplLoad     == \E a \in LoadLines : ReplStep("load", a, "", do_load(a))
ReplSheets   == \E a \in SheetsLines : ReplStep("sheets", a, "", do_sheets(a))
ReplInfo     == ReplStep("info", <<>>, "", do_info)
ReplHead     == \E n \in NumberArgs : ReplStep("head", n, "", do_head(n))
ReplTail     == \E n \in NumberArgs : ReplStep("tail", n, "", do_tail(n))
ReplColumns  == ReplStep("columns", <<>>, "", do_columns)
ReplDescribe == \E a \in DescribeLines : ReplStep("describe", a, "", do_describe(a))
\* The answer is read only when the handler reaches its input() call.
ReplFilter   == \E a \in FilterLines :
                    \E response \in IF do_filter(a, "").asked THEN Responses ELSE {""} :
                        ReplStep("filter", a, response, do_filter(a, response))
ReplSave     == \E f \in SaveNames : ReplStep("save", f, "", do_save(f))
ReplQuery    == \E e \in QueryLines :
                    \E response \in IF do_query(e, "").asked THEN Responses ELSE {""} :
                        ReplStep("query", e, response, do_query(e, response))
ReplExit     == ReplStep("exit", <<>>, "", do_exit)
ReplQuit     == ReplStep("quit", <<>>, "", do_quit)
ReplEOF      == ReplStep("EOF", <<>>, "", do_EOF)
ReplEmpty    == ReplStep("", <<>>, "", emptyline)
ReplHelp     == ReplStep("help", <<>>, "", do_help)
ReplUnknown  == \E w \in UnknownWords : ReplStep(w, <<>>, "", default)

\* The parts of the state a program does not use.
IdleLib == objs = <<None, None>> /\ call = NoCall /\ res = NoRes /\ touched = "none"

IdleRepl ==
    /\ current_dataset = NoName /\ current_df = None /\ directory = NoName
    /\ repl_state = "off" /\ repl_cmd = NoCmd /\ repl_out = Silent /\ csv_files = {}

IdleCli ==
    /\ survey_df = None /\ cli_state = "off" /\ cli_cmd = CliLine("", <<>>)
    /\ cli_out = COut("none")

(***************************************************************************)
(* The two interactive programs.  so_survey: start_repl() constructs       *)
(* SurveyREPL (no dataset) and runs cmdloop; the data directory holds a    *)
(* workbook with the table `disk`.  stack_survey: main() has read the      *)
(* workbook named on its command line into Survey.df and enters its loop.  *)
(***************************************************************************)
InitRepl ==
    /\ program = "so_survey"
    /\ disk \in SheetTables /\ listing = DataDirListing
    /\ current_dataset = NoName /\ current_df = None /\ directory = NoName
    /\ repl_state = "running" /\ repl_cmd = NoCmd /\ repl_out = Silent /\ csv_files = {}
    /\ IdleLib /\ IdleCli

InitCli ==
    /\ program = "stack_survey"
    /\ survey_df \in Surveys
    /\ cli_state = "running" /\ cli_cmd = CliLine("", <<>>) /\ cli_out = COut("none")
    /\ disk = None /\ listing = <<>>
    /\ IdleLib /\ IdleRepl

Init == InitRepl \/ InitCli

NextRepl ==
    \/ ReplCatalog
    \/ ReplLoad
    \/ ReplSheets
    \/ ReplInfo
    \/ ReplHead
    \/ ReplTail
    \/ ReplColumns
    \/ ReplDescribe
    \/ ReplFilter
    \/ ReplSave
    \/ ReplQuery
    \/ ReplExit
    \/ ReplQuit
    \/ ReplEOF
    \/ ReplEmpty
    \/ ReplHelp
    \/ ReplUnknown

NextCli ==
    \/ CliExit
    \/ CliEndOfInput
    \/ CliHelp
    \/ CliStructure
    \/ CliSearchq
    \/ CliSearcho
    \/ CliSubset
    \/ CliDist
    \/ CliUnknown

Next == NextRepl \/ NextCli

Spec == Init /\ [][Next]_vars

\* A SurveyREPL object whose session fields hold the table of the workbook
\* under the name it has in the data directory: the fields as lines 96-98
\* of do_load write them.
InitLoaded ==
    /\ program = "so_survey"
    /\ disk \in SheetTables /\ listing = DataDirListing
    /\ current_dataset = <<"survey_2021">> /\ current_df = disk /\ directory = NoName
    /\ repl_state = "running" /\ repl_cmd = NoCmd /\ repl_out = Silent /\ csv_files = {}
    /\ IdleLib /\ IdleCli

SpecLoaded == InitLoaded /\ [][NextRepl]_vars

\* The caller of the table functions holds the table read from the sheet.
InitLib ==
    /\ program = "lib"
    /\ disk \in LoadedTables /\ listing = DataDirListing
    /\ objs = <<disk, None>>
    /\ call = NoCall /\ res = NoRes /\ touched = "none"
    /\ IdleRepl /\ IdleCli

NextLib ==
    \/ CallFilterByColumn
    \/ CallFilterByValueRange
    \/ CallDescribe
    \/ Mutate
    \/ Adopt
    \/ Discard

SpecLib == InitLib /\ [][NextLib]_vars

\* The so_survey command line over a data directory whose workbooks hold
\* the table `disk`.
InitCatalog ==
    /\ program = "so_survey_cli"
    /\ disk \in SheetTables /\ listing \in Listings
    /\ current_dataset = NoName /\ current_df = None /\ directory = NoName
    /\ repl_state = "off" /\ repl_cmd = NoCmd /\ repl_out = Silent /\ csv_files = {}
    /\ IdleLib /\ IdleCli

NextCatalog ==
    \/ CatalogCommand
    \/ LoadCommand

SpecCatalog == InitCatalog /\ [][NextCatalog]_vars

(***************************************************************************)
(* Claims about the interactive sessions (Spec, SpecLoaded).               *)
(***************************************************************************)
DatasetCommands == {"head", "tail", "columns", "describe", "filter", "query", "save", "info"}

\* C1: in the so_survey REPL, while no dataset is loaded, each of head, tail,
\* columns, describe, filter, query, save and info reports the no-dataset
\* error, leaves the session without table and dataset name, and does not
\* end the session.
C1_NoDatasetCommands ==
    [][(current_df = None /\ repl_cmd'.word \in DatasetCommands)
          => /\ repl_out' = NoDatasetLoaded
             /\ current_df' = None /\ current_dataset' = NoName
             /\ repl_state' = "running"]_vars

\* C1 witness: a query issued after a failed load, answered by the
\* no-dataset error, the session still running without a dataset.
C1_Witness ==
    /\ repl_cmd.word = "query" /\ repl_cmd.args # NoExpr
    /\ repl_out = NoDatasetLoaded
    /\ current_df = None /\ current_dataset = NoName /\ repl_state = "running"

\* The loader collaborator returns a table for the dataset a load line names.
LoaderReturns(a) ==
    /\ a.wellformed /\ a.dataset # NoName /\ a.head.t # "bad"
    /\ load_survey(get_dataset_path(a.dataset, a.directory), a.sheet).kind = "df"

\* C2: a load command naming a dataset for which the loader returns a table
\* moves the session to DatasetLoaded: the current table is the loader's
\* table and the dataset name is recorded.
C2_LoadSucceeds ==
    (program = "so_survey" /\ repl_cmd.word = "load" /\ LoaderReturns(repl_cmd.args))
        => /\ current_df = load_survey(get_dataset_path(repl_cmd.args.dataset,
                                                        repl_cmd.args.directory),
                                       repl_cmd.args.sheet).df
           /\ current_dataset = repl_cmd.args.dataset
           /\ repl_out.kind = "ok"

\* A filter line from which a candidate can be computed on table df.
FilterApplies(df, a) == a.wellformed /\ Len(a.tokens) >= 2 /\ HasColumn(df, a.tokens[1])

\* The candidate table of a filter line: the rows whose value in the column
\* is one of the words typed.
FilterCandidate(df, a) ==
    [df EXCEPT !.rows = SelectSeq(@, LAMBDA r :
        \E i \in 2..Len(a.tokens) : r.vals[a.tokens[1]] = StrCell(a.tokens[i]))]

Affirmative(response) == response \in {"y", "Y", "yes", "YES"}

\* C3: filter and query compute a candidate table without changing the
\* session; the current table is replaced by the candidate only on an
\* affirmative answer (y or yes, any case), is the same table as before for
\* any other answer, and declining is not reported as an error.
C3_ConfirmedReplacement ==
    [][(current_df # None /\
          \/ repl_cmd'.word = "filter" /\ FilterApplies(current_df, repl_cmd'.args)
          \/ repl_cmd'.word = "query" /\ repl_cmd'.args.t = "expr"
                /\ query(current_df, repl_cmd'.args).kind = "df")
          => /\ repl_cmd'.asked
             /\ current_dataset' = current_dataset /\ directory' = directory
             /\ current_df' =
                   IF ~Affirmative(repl_cmd'.response) THEN current_df
                   ELSE IF repl_cmd'.word = "filter"
                   THEN FilterCandidate(current_df, repl_cmd'.args)
                   ELSE query(current_df, repl_cmd'.args).df
             /\ repl_cmd'.response \in Answers \ {"y", "Y", "yes", "YES"}
                   => repl_out'.kind # "error"]_vars

\* C4: a load command that fails while no dataset is loaded leaves the
\* session without table, dataset name and directory; the error is printed,
\* no exception leaves the handler, and the session goes on.
C4_FailedLoadKeepsNoDataset ==
    [][(current_df = None /\ repl_cmd'.word = "load")
          => /\ repl_state' = "running"
             /\ repl_out'.kind = "error"
                   => /\ current_df' = None
                      /\ current_dataset' = NoName
                      /\ directory' = NoName]_vars

\* C4 witness: a load naming a dataset that is in the data directory fails
\* on the path resolution; the error is printed and nothing is loaded.
C4_Witness ==
    /\ repl_cmd.word = "load" /\ repl_cmd.args.dataset = <<"survey_2021">>
    /\ repl_out.kind = "error" /\ repl_out.exc = "NameError"
    /\ current_df = None /\ current_dataset = NoName /\ repl_state = "running"

\* C5: in both front-ends a command word that is not recognized is reported
\* as an error, leaves the session state unchanged and does not end the
\* session.
C5_UnknownCommand ==
    [][/\ (program = "so_survey" /\ repl_cmd'.word \in UnknownWords)
            => /\ repl_out'.kind = "error"
               /\ <<current_df, current_dataset, directory, csv_files>>'
                     = <<current_df, current_dataset, directory, csv_files>>
               /\ repl_state' = "running"
       /\ (program = "stack_survey" /\ cli_cmd' \in {CliLine(w, <<>>) : w \in UnknownLines})
            => /\ cli_out'.kind = "unknown"
               /\ survey_df' = survey_df
               /\ cli_state' = "running"]_vars

\* C5 witness: the stack_survey loop after an unrecognized word, running.
C5_Witness ==
    /\ program = "stack_survey" /\ cli_cmd.word = "foo"
    /\ cli_out.kind = "unknown" /\ cli_state = "running"

\* C5 witness in the REPL.
C5_WitnessRepl ==
    /\ program = "so_survey" /\ repl_cmd.word = "foo"
    /\ repl_out.kind = "error" /\ repl_state = "running"

\* C6: in both front-ends the session ends only on exit/quit or at the end
\* of input; a command that fails is reported and the loop goes on.
C6_EndsOnlyOnExit ==
    /\ program = "so_survey" =>
          /\ repl_state \in {"running", "exited"}
          /\ repl_state = "exited" => repl_cmd.word \in {"exit", "quit", "EOF"}
    /\ program = "stack_survey" =>
          /\ cli_state \in {"running", "exited", "eof"}
          /\ cli_state # "running" => cli_cmd.word \in {"exit", "quit", EndOfInput}

(***************************************************************************)
(* Claims about the table functions (SpecLib).                             *)
(***************************************************************************)
\* str(v) of an element of the value list.
RenderValue(v) == Render(v, "object")

RenderedMatch(df, column, values) ==
    SelectSeq(df.rows, LAMBDA r :
        \E i \in DOMAIN values :
            Render(r.vals[column], df.dtypes[column]) = RenderValue(values[i]))

\* C7: filter_by_column(T, C, V), C present and V non-empty, returns exactly
\* the rows of T whose value in C rendered as text equals the rendering of
\* an element of V (the number 25 is matched by the text "25"), and is empty
\* exactly when no row matches.
C7_FilterMatchesRenderedText ==
    (call.op = "filter_by_column" /\ HasColumn(call.input, call.column) /\ call.values # <<>>)
        => /\ res.kind = "df"
           /\ res.df.rows = RenderedMatch(call.input, call.column, call.values)
           /\ (res.df.rows = <<>>) <=> (RenderedMatch(call.input, call.column, call.values) = <<>>)

\* t holds rows of the table read from the sheet only, each with the index
\* and the content it has there, in their order there.
SubTable(t, loaded) ==
    /\ t.cols = loaded.cols
    /\ \A i \in DOMAIN t.rows : \E j \in DOMAIN loaded.rows : loaded.rows[j] = t.rows[i]
    /\ \A i, j \in DOMAIN t.rows : i < j => t.rows[i].idx < t.rows[j].idx

\* C8: filtering never renumbers rows: after any sequence of filter_by_column
\* and filter_by_value_range applications, adopted or not, every surviving
\* row carries the index (and content) it had in the loaded table, the rows
\* keep their relative order, and the surviving indices are a subset of the
\* original ones.
C8_IndicesPreserved ==
    touched = "none" =>
        /\ SubTable(objs[1], disk)
        /\ res.kind = "df" => SubTable(res.df, disk) /\ SubTable(res.df, call.input)

\* C8 witness: a second filter applied to an adopted filter result whose
\* only row is not the first row of the loaded table.
C8_Witness ==
    /\ call.op = "filter_by_value_range" /\ res.kind = "df"
    /\ objs[1] # disk
    /\ Indices(objs[1]) = <<1>> /\ Indices(res.df) = <<1>>

\* The columns a call names that its table does not have.
AbsentRequested ==
    IF call.op \in {"filter_by_column", "filter_by_value_range"}
    THEN IF HasColumn(call.input, call.column) THEN {} ELSE {call.column}
    ELSE IF call.op = "describe"
    THEN {c \in Range(call.include.cols) : ~HasColumn(call.input, c)}
    ELSE {}

\* C9: an operation given a column absent from the table fails with a
\* column-not-found error whose message names the requested column and lists
\* all available columns, and returns no table.
C9_ColumnNotFoundListsColumns ==
    AbsentRequested # {} =>
        /\ res.kind = "KeyError"
        /\ AbsentRequested \subseteq Range(res.names)
        /\ res.available = call.input.cols

\* The rows of T within the bounds given.
InRange(df, column, min_value, max_value) ==
    SelectSeq(df.rows, LAMBDA r :
        /\ min_value # NoBound => Leq(min_value, r.vals[column])
        /\ max_value # NoBound => Leq(r.vals[column], max_value))

\* The column's values can be ordered against the bound.
Orderable(df, column, bound) ==
    \/ bound = NoBound
    \/ /\ df.dtypes[column] \in {"int64", "float64"} => bound.t = "int"
       /\ \A i \in DOMAIN df.rows :
             LET c == df.rows[i].vals[column]
             IN c.t = bound.t \/ (c.t = "nan" /\ bound.t = "int")

\* C10: filter_by_value_range(T, C, min, max), C present with orderable
\* values, returns exactly the rows with value >= min (when given) and
\* value <= max (when given); with both bounds absent the result equals T
\* and is another object: a later change to one does not show in the other.
C10_RangeFilter ==
    (call.op = "filter_by_value_range" /\ HasColumn(call.input, call.column)
        /\ Orderable(call.input, call.column, call.min_value)
        /\ Orderable(call.input, call.column, call.max_value))
        => /\ res.kind = "df"
           /\ res.df = [call.input EXCEPT
                           !.rows = InRange(call.input, call.column, call.min_value, call.max_value)]
           /\ (call.min_value = NoBound /\ call.max_value = NoBound) => res.df = call.input
           /\ touched = "in" => objs[res.ref] = res.df
           /\ touched = "out" => objs[1] = call.input

\* C10 witness: both bounds given and a row excluded by each, on a table
\* of two rows; the caller then changed its own table.
C10_Witness ==
    /\ call.op = "filter_by_value_range" /\ res.kind = "df"
    /\ call.min_value # NoBound /\ call.max_value # NoBound
    /\ Len(call.input.rows) = 2 /\ Len(res.df.rows) = 1
    /\ touched = "in"

\* C10 witness of the unbounded call: a non-empty table returned equal, and
\* the caller then changed the returned table.
C10_WitnessUnbounded ==
    /\ call.op = "filter_by_value_range" /\ res.kind = "df"
    /\ call.min_value = NoBound /\ call.max_value = NoBound
    /\ call.input.rows # <<>> /\ touched = "out"

\* C11: filter_by_column is idempotent: the table a call returned, filtered
\* again by the same column and values, comes back identical (same rows,
\* same index labels, same content).
C11_FilterIdempotent ==
    (call.op = "filter_by_column" /\ res.kind = "df")
        => LET again == filter_by_column(res.df, call.column, call.values)
           IN again.kind = "df" /\ again.df = res.df

\* C11 witness: a call that kept some rows of the table and dropped others.
C11_Witness ==
    /\ call.op = "filter_by_column" /\ res.kind = "df" /\ touched = "none"
    /\ res.df.rows # <<>>
    /\ Len(res.df.rows) < Len(call.input.rows)

(***************************************************************************)
(* Claims about the answer distribution (Spec, stack_survey).              *)
(***************************************************************************)
\* The dist line asks for multiple-choice mode.
IsMC(args) == Len(args) > 1 /\ Upper(args[2]) = <<"M", "C">>

\* The rows of the survey that answered the question.
Answered(df, question) == {i \in DOMAIN df.rows : df.rows[i].vals[question].t # "nan"}

\* The pieces of the answered cells: row i, k-th piece of its text.
Pieces(df, question) ==
    UNION {{<<i, k>> : k \in DOMAIN SplitSemi(df.rows[i].vals[question].s)} :
              i \in Answered(df, question)}

PieceAt(df, question, p) == Strip(SplitSemi(df.rows[p[1]].vals[question].s)[p[2]])

RECURSIVE SumCnt(_)
SumCnt(items) == IF items = <<>> THEN 0 ELSE items[1].cnt + SumCnt(Tail1(items))

\* C12: in multiple-choice mode every piece of every answered cell (split on
\* ';', stripped) is one observation: the keys are the pieces, each key's
\* share is its number of pieces over the number of all pieces, and the
\* counts add up to that denominator.
C12_MultiChoiceShares ==
    (program = "stack_survey" /\ cli_cmd.word = "dist" /\ IsMC(cli_cmd.args)
        /\ HasColumn(survey_df, cli_cmd.args[1]))
        => LET d == cli_out.dist
               q == cli_cmd.args[1]
               P == Pieces(survey_df, q)
           IN /\ cli_out.kind = "dist"
              /\ {d[i].opt : i \in DOMAIN d} = {PieceAt(survey_df, q, p) : p \in P}
              /\ \A i, j \in DOMAIN d : i # j => d[i].opt # d[j].opt
              /\ \A i \in DOMAIN d :
                    /\ d[i].cnt = Cardinality({p \in P : PieceAt(survey_df, q, p) = d[i].opt})
                    /\ d[i].total = Cardinality(P)
              /\ SumCnt(d) = Cardinality(P)

\* C12 witness: a survey with a row answering two options, one of them with
\* a blank after the ';', and another row; three pieces over two rows.
C12_Witness ==
    /\ program = "stack_survey" /\ cli_cmd.word = "dist" /\ IsMC(cli_cmd.args)
    /\ cli_cmd.args[1] = Q1 /\ Len(survey_df.rows) = 2
    /\ survey_df.rows[1].vals[Q1] = Text(<<"B", ";", " ", "A">>)
    /\ survey_df.rows[2].vals[Q1] = Text(<<"A">>)
    /\ cli_out.dist = <<[opt |-> <<"A">>, cnt |-> 2, total |-> 3],
                        [opt |-> <<"B">>, cnt |-> 1, total |-> 3]>>

\* C13: in single-valued mode the keys are the distinct non-missing values
\* of the column and nothing else, each with share occurrences / number of
\* non-missing rows; the counts add up to the number of non-missing rows
\* (the shares sum to 1) and missing values count nowhere.
C13_SingleChoiceShares ==
    (program = "stack_survey" /\ cli_cmd.word = "dist" /\ cli_cmd.args # <<>>
        /\ ~IsMC(cli_cmd.args) /\ HasColumn(survey_df, cli_cmd.args[1]))
        => LET d == cli_out.dist
               q == cli_cmd.args[1]
               A == Answered(survey_df, q)
           IN /\ cli_out.kind = "dist"
              /\ {d[i].opt : i \in DOMAIN d} = {survey_df.rows[i].vals[q].s : i \in A}
              /\ \A i, j \in DOMAIN d : i # j => d[i].opt # d[j].opt
              /\ \A i \in DOMAIN d :
                    /\ d[i].cnt = Cardinality({r \in A : survey_df.rows[r].vals[q].s = d[i].opt})
                    /\ d[i].total = Cardinality(A)
              /\ SumCnt(d) = Cardinality(A)

\* C13 witness: one respondent answered, one did not; the answer has the
\* whole share.
C13_Witness ==
    /\ program = "stack_survey" /\ cli_cmd = CliLine("dist", <<Q1>>)
    /\ Len(survey_df.rows) = 2
    /\ survey_df.rows[1].vals[Q1] = TextNaN
    /\ survey_df.rows[2].vals[Q1] = Text(<<"A", ";", "B">>)
    /\ cli_out.dist = <<[opt |-> <<"A", ";", "B">>, cnt |-> 1, total |-> 1]>>

\* The place at which a token is first met scanning the column from the
\* first row, and within a cell from left to right.
FirstSeen(obs, opt) == CHOOSE k \in DOMAIN obs : obs[k] = opt /\ \A j \in 1..(k - 1) : obs[j] # opt

\* The printed distribution runs from the most frequent token down.
DescendingFrequency(d) == \A i, j \in DOMAIN d : i < j => d[i].cnt >= d[j].cnt

\* C14: in both modes the mapping lists the tokens in descending order of
\* frequency, and tokens of equal frequency in the order in which they were
\* first encountered.
C14_FrequencyThenFirstSeen ==
    (program = "stack_survey" /\ cli_cmd.word = "dist" /\ cli_cmd.args # <<>>
        /\ HasColumn(survey_df, cli_cmd.args[1]))
        => LET d == cli_out.dist
               obs == Observations(survey_df, cli_cmd.args[1], IsMC(cli_cmd.args))
           IN /\ DescendingFrequency(d)
              /\ \A i, j \in DOMAIN d :
                    (i < j /\ d[i].cnt = d[j].cnt)
                        => FirstSeen(obs, d[i].opt) < FirstSeen(obs, d[j].opt)

(***************************************************************************)
(* Claims about describe (SpecLib).                                        *)
(***************************************************************************)
\* The columns describe works on: include, or all columns of the table.
Restricted(df, include) == IF include.given THEN include.cols ELSE df.cols

IsNumeric(df, c) == df.dtypes[c] \in {"int64", "float64"}

\* The rows holding a value in column c, and the value of a row.
Present(df, c) == {i \in DOMAIN df.rows : df.rows[i].vals[c].t # "nan"}
ValueAt(df, c, i) == df.rows[i].vals[c].n

\* v is a k-th smallest value of column c: fewer than k values lie below it
\* and at most (count - k) above it.
IsOrderStatistic(df, c, v, k) ==
    /\ \E i \in Present(df, c) : ValueAt(df, c, i) = v
    /\ Cardinality({i \in Present(df, c) : ValueAt(df, c, i) < v}) <= k - 1
    /\ Cardinality({i \in Present(df, c) : ValueAt(df, c, i) > v})
          <= Cardinality(Present(df, c)) - k

\* C15: describe returns one column per numeric column of the (possibly
\* restricted) table, with rows count, mean, median, std, min and max;
\* non-numeric columns are left out without error (an empty stats-table when
\* none is numeric); count is the number of non-missing values, min and max
\* are their extremes, median is the middle value of an odd count and the
\* average of the two middle values of an even count.
C15_DescribeStatistics ==
    (call.op = "describe"
        /\ \A i \in DOMAIN call.include.cols : HasColumn(call.input, call.include.cols[i]))
        => LET df == call.input
               cols == Restricted(df, call.include)
               st == res.stats
           IN /\ res.kind = "stats"
              /\ [i \in DOMAIN st |-> st[i].column] = SelectSeq(cols, LAMBDA c : IsNumeric(df, c))
              /\ \A i \in DOMAIN st :
                    LET c == st[i].column
                        n == Cardinality(Present(df, c))
                    IN /\ DOMAIN st[i] = {"column", "count", "mean", "median", "std", "min", "max"}
                       /\ st[i].count = n
                       /\ n = 0 => st[i].min = StatNaN /\ st[i].max = StatNaN
                                      /\ st[i].median = StatNaN
                       /\ n > 0 =>
                             /\ st[i].min.t = "num" /\ st[i].min.den = 1
                             /\ IsOrderStatistic(df, c, st[i].min.num, 1)
                             /\ st[i].max.t = "num" /\ st[i].max.den = 1
                             /\ IsOrderStatistic(df, c, st[i].max.num, n)
                             /\ st[i].median.t = "num"
                       /\ (n > 0 /\ n % 2 = 1) =>
                             /\ st[i].median.den = 1
                             /\ IsOrderStatistic(df, c, st[i].median.num, (n + 1) \div 2)
                       /\ (n > 0 /\ n % 2 = 0) =>
                             /\ st[i].median.den = 2
                             /\ \E a, b \in {ValueAt(df, c, r) : r \in Present(df, c)} :
                                   /\ IsOrderStatistic(df, c, a, n \div 2)
                                   /\ IsOrderStatistic(df, c, b, (n \div 2) + 1)
                                   /\ st[i].median.num = a + b

\* C15 witness: describe of a table with the ages 30 and 25 and a text
\* column: one stats column, count 2, median 27.5, min 25, max 30.
C15_Witness ==
    /\ call.op = "describe" /\ call.include = NoInclude /\ res.kind = "stats"
    /\ Len(res.stats) = 1 /\ res.stats[1].column = "age"
    /\ NonMissing(call.input, "age") = <<30, 25>>
    /\ res.stats[1].count = 2
    /\ res.stats[1].median = Stat(55, 2)
    /\ res.stats[1].min = Stat(25, 1) /\ res.stats[1].max = Stat(30, 1)

\* C15 witness: no numeric column remains and the stats-table is empty.
C15_WitnessEmpty ==
    /\ call.op = "describe" /\ call.include = Include(<<"country">>)
    /\ call.input.rows # <<>>
    /\ res.kind = "stats" /\ res.stats = <<>>

\* C15 witness: a numeric column with a missing value, count 1 of 2 rows.
C15_WitnessMissing ==
    /\ call.op = "describe" /\ res.kind = "stats" /\ Len(call.input.rows) = 2
    /\ Len(res.stats) = 1 /\ res.stats[1].count = 1
    /\ res.stats[1].median = res.stats[1].min

(***************************************************************************)
(* Claims about the option search (Spec, stack_survey).                    *)
(***************************************************************************)
\* The respondent of row r selected the option: it is one of the answers of
\* the cell, split on ';'.
Selected(df, question, option, r) ==
    /\ df.rows[r].vals[question].t # "nan"
    /\ \E k \in DOMAIN SplitSemi(df.rows[r].vals[question].s) :
          Strip(SplitSemi(df.rows[r].vals[question].s)[k]) = option

SelectedRows(df, question, option) ==
    IF ~HasColumn(df, question) THEN <<>>
    ELSE SelectSeq(df.rows, LAMBDA row :
             \E r \in DOMAIN df.rows : df.rows[r] = row /\ Selected(df, question, option, r))

\* C16: for a question of the survey search_option returns exactly the
\* indices of the respondents who selected the option (the option is one of
\* the ';'-separated answers of the cell, not merely part of a longer answer
\* text) and subset_respondents exactly those rows; for an absent question
\* the list and the table are empty.  (Stated for the searches that return:
\* the option texts that end the program are the matter of C6.)
C16_SearchOptionExact ==
    (program = "stack_survey" /\ cli_cmd.word \in {"searcho", "subset"}
        /\ Len(cli_cmd.args) >= 2 /\ cli_state = "running")
        => LET hit == SelectedRows(survey_df, cli_cmd.args[1], JoinWords(Tail1(cli_cmd.args)))
           IN /\ cli_cmd.word = "searcho"
                    => /\ cli_out.kind = "indices"
                       /\ cli_out.idxs = [i \in DOMAIN hit |-> hit[i].idx]
              /\ cli_cmd.word = "subset"
                    => /\ cli_out.kind = "table"
                       /\ cli_out.shown = [survey_df EXCEPT !.rows = hit]

(***************************************************************************)
(* Claims about a session that holds a table (SpecLoaded).                 *)
(***************************************************************************)
\* C17: a load command that fails while a dataset is loaded leaves the
\* current table, the dataset name and the directory exactly as they were.
C17_FailedLoadKeepsDataset ==
    [][(current_df # None /\ repl_cmd'.word = "load" /\ repl_out'.kind = "error")
          => /\ current_df' = current_df
             /\ current_dataset' = current_dataset
             /\ directory' = directory
             /\ repl_state' = "running"]_vars

\* C17 witness: with a table loaded, a load of a dataset under another name
\* has failed and the session still holds the table under its name.
C17_Witness ==
    /\ repl_cmd.word = "load" /\ repl_cmd.args.dataset = <<"missing">>
    /\ repl_out.kind = "error"
    /\ current_df = disk /\ current_df.rows # <<>>
    /\ current_dataset = <<"survey_2021">>

\* C18: the current table is absent exactly when the dataset name is
\* absent; once a table is present no command makes it absent again, and a
\* filter or query result that is adopted keeps the recorded dataset name.
C18_TableIffName ==
    [][/\ current_df = None <=> current_dataset = NoName
       /\ current_df' = None <=> current_dataset' = NoName
       /\ current_df # None => current_df' # None
       /\ (current_df # None /\ repl_cmd'.word \in {"filter", "query"})
             => current_dataset' = current_dataset]_vars

\* C18 witness: a query result without rows was adopted; the session holds
\* the (empty) table under the name of the loaded dataset.
C18_Witness ==
    /\ repl_cmd.word = "query" /\ repl_cmd.asked /\ repl_cmd.response \in {"y", "YES"}
    /\ disk.rows # <<>>
    /\ current_df # None /\ current_df.rows = <<>>
    /\ current_dataset = <<"survey_2021">>

(***************************************************************************)
(* Claims about the catalog (SpecCatalog).                                 *)
(***************************************************************************)
\* The workbooks of the directory a catalog call looks at, in listing order.
Workbooks(dir) ==
    SelectSeq(ListDir(IF dir = NoName THEN DefaultDataDir ELSE dir), EndsWithExcel)

\* C19: catalog round trip: every name list_datasets returns is returned
\* once, get_dataset_path of a listed name is the path of the file the name
\* was derived from, and a load by a listed name finds its file.
C19_CatalogRoundTrip ==
    /\ call.op = "catalog_command" =>
          LET files == Workbooks(call.directory)
          IN /\ res.kind = "names"
             /\ Len(res.names) = Len(files)
             /\ \A i, j \in DOMAIN res.names : i # j => res.names[i] # res.names[j]
             /\ \A i \in DOMAIN res.names :
                   get_dataset_path(res.names[i], call.directory).file = files[i]
    /\ (call.op = "load_command" /\ call.dataset \in Range(list_datasets(call.directory)))
          => res.kind = "df"

====
